---- MODULE Spec2Model ----
(***************************************************************************)
(* Model of the Coordination and Pairing statistics of solvation_analysis. *)
(*                                                                         *)
(* The solvation data is a relation of rows, one per (frame, solute atom,  *)
(* solvent atom) within the cutoff.  Each pandas group-by of the source is *)
(* written as the explicit reduction it performs.  Floating point values   *)
(* are modelled as exact fractions [num, den]; a zero denominator stands   *)
(* for the IEEE results of a division by zero: num > 0 is +inf, num < 0 is *)
(* -inf and num = 0 is NaN (also used for the empty cells of an unstacked  *)
(* table).  Rounding error is not modelled.  The columns are matched by    *)
(* role (frame, solute atom, solvent atom, solvent residue, solvent name). *)
(***************************************************************************)
EXTENDS Integers, FiniteSets, Sequences, TLC

\* ---------------------------------------------------------------- bounds
MaxRows == 3      \* rows of the solvation data

\* ------------------------------------------------- the universe of inputs
Frames  == {0, 1}            \* frame numbers of the rows
Solutes == {0, 1}            \* solute atoms of the rows
Atoms   == {1, 2, 3, 4}      \* solvent atoms of the rows
Species == {"A", "B"}
FrameCounts  == {1, 2}       \* the n_frames handed to a constructor
SoluteCounts == {1, 2}       \* the n_solutes handed to a constructor
Populations  == {0, 1, 2}    \* the populations of a solvent species

\* atoms 1 and 2 belong to residue 1, every later atom is a residue of its own
ResOf(a) == IF a <= 2 THEN 1 ELSE a - 1
\* residues 1 and 2 are of species A, the others of species B
NameOf(r) == IF r <= 2 THEN "A" ELSE "B"
\* atom types of the atom group: odd atoms have type "1", even atoms type "2"
TypeOf(a) == IF a % 2 = 1 THEN "1" ELSE "2"

Row(f, s, a) ==
    [frame |-> f, solvated_atom |-> s, atom_ix |-> a,
     res_ix |-> ResOf(a), res_name |-> NameOf(ResOf(a))]

AllRows == {Row(f, s, a) : f \in Frames, s \in Solutes, a \in Atoms}

RECURSIVE Tables(_)
Tables(k) ==
    IF k = 0 THEN {{}}
    ELSE LET T == Tables(k - 1) IN T \cup {t \cup {r} : t \in T, r \in AllRows}

\* n_solvents: every population of the two species, and the dictionaries that
\* lack a species
PopDicts ==
    [Species -> Populations]
        \cup UNION {[D -> {2}] : D \in (SUBSET Species) \ {Species}}

\* ------------------------------------------------------------ arithmetic
Abs(n) == IF n < 0 THEN -n ELSE n
Sign(n) == IF n < 0 THEN -1 ELSE IF n > 0 THEN 1 ELSE 0

RECURSIVE GCD(_, _)
GCD(a, b) == IF b = 0 THEN a ELSE GCD(b, a % b)

\* the float n / d
Frac(n, d) ==
    IF d = 0 THEN [num |-> Sign(n), den |-> 0]
    ELSE LET g == GCD(Abs(n), Abs(d))
             s == IF d < 0 THEN -1 ELSE 1
         IN  [num |-> s * (n \div g), den |-> s * (d \div g)]

NaN == [num |-> 0, den |-> 0]
IsNaN(q) == q.den = 0 /\ q.num = 0
IsFinite(q) == q.den # 0

FAdd(a, b) ==
    IF IsFinite(a) /\ IsFinite(b)
    THEN Frac(a.num * b.den + b.num * a.den, a.den * b.den)
    ELSE IF IsNaN(a) \/ IsNaN(b) THEN NaN
    ELSE IF IsFinite(a) THEN b
    ELSE IF IsFinite(b) THEN a
    ELSE IF a.num = b.num THEN a ELSE NaN

FNeg(a) == [num |-> -a.num, den |-> a.den]
FSub(a, b) == FAdd(a, FNeg(b))

\* the float a / n for an integer n
FDivInt(a, n) ==
    IF IsFinite(a) THEN Frac(a.num, a.den * n)
    ELSE IF n = 0 THEN NaN
    ELSE [num |-> a.num * Sign(n), den |-> 0]

FEq(a, n, d) == IsFinite(a) /\ a.num * d = n * a.den
FLeq(a, b) == IsFinite(a) /\ IsFinite(b) /\ a.num * b.den <= b.num * a.den

RECURSIVE FSum(_, _)
\* sum of f[x] over the finite set S, skipping NaN as pandas sums do
FSum(f, S) ==
    IF S = {} THEN Frac(0, 1)
    ELSE LET x == CHOOSE y \in S : TRUE
         IN  IF IsNaN(f[x]) THEN FSum(f, S \ {x})
             ELSE FAdd(f[x], FSum(f, S \ {x}))

RECURSIVE ISum(_, _)
ISum(f, S) ==
    IF S = {} THEN 0
    ELSE LET x == CHOOSE y \in S : TRUE IN f[x] + ISum(f, S \ {x})

\* --------------------------------------------------------------- pandas
\* Series.unstack(): a table over index x columns, NaN where the series
\* has no entry
Unstack(series, index, columns) ==
    [i \in index |->
        [c \in columns |->
            IF <<i, c>> \in DOMAIN series THEN series[<<i, c>>] ELSE NaN]]

\* --------------------------------------------------------- Coordination
Names(data)  == {r.res_name : r \in data}
FramesOf(data) == {r.frame : r \in data}

\* variant: one per distinct residue of the group instead of one per row
CnCounts_nunique(data) ==
    LET groups == {<<r.frame, r.solvated_atom, r.res_name>> : r \in data}
    IN  [g \in groups |->
            Cardinality({r.res_ix : r \in {q \in data :
                <<q.frame, q.solvated_atom, q.res_name>> = g}})]

\* groupby([frame, solvated_atom, res_name]).count()[res_ix]
CnCounts(data) ==
    LET groups == {<<r.frame, r.solvated_atom, r.res_name>> : r \in data}
    IN  [g \in groups |->
            Cardinality({r \in data :
                <<r.frame, r.solvated_atom, r.res_name>> = g})]

\* counts.groupby([res_name, frame]).sum() / (n_solutes * n_frames)
CnSeries(data, nf, ns) ==
    LET counts == CnCounts(data)
        keys   == {<<g[3], g[1]>> : g \in DOMAIN counts}
    IN  [k \in keys |->
            Frac(ISum(counts, {g \in DOMAIN counts : g[3] = k[1] /\ g[1] = k[2]}),
                 ns * nf)]

\* variant: cn_dict is reindexed to every species, 0 where there is no row
MeanCn_reindexed(data, nf, ns) ==
    LET cn_series == CnSeries(data, nf, ns)
    IN  [cn_by_frame |-> Unstack(cn_series, Names(data), FramesOf(data)),
         cn_dict |-> [n \in Species |->
                        FSum(cn_series, {k \in DOMAIN cn_series : k[1] = n})]]

\* Coordination._mean_cn
MeanCn(data, nf, ns) ==
    LET cn_series == CnSeries(data, nf, ns)
    IN  [cn_by_frame |-> Unstack(cn_series, Names(data), FramesOf(data)),
         cn_dict |-> [n \in Names(data) |->
                        FSum(cn_series, {k \in DOMAIN cn_series : k[1] = n})]]

\* the default tolerance of _calculate_coordinating_atoms, 0.005 = 1 / 200
TolNum == 1
TolDen == 200

\* atom_types of _calculate_coordinating_atoms: a new table, the rows of the
\* solvation data with the type of their atom added
AtomTypes(data) ==
    {[frame |-> r.frame, solvated_atom |-> r.solvated_atom, atom_ix |-> r.atom_ix,
      res_ix |-> r.res_ix, res_name |-> r.res_name,
      atom_type |-> TypeOf(r.atom_ix)] : r \in data}

\* type_counts: groupby([res_name, atom_type]).count()
TypeCounts(data) ==
    LET atom_types == AtomTypes(data)
        pairs == {<<r.res_name, r.atom_type>> : r \in atom_types}
    IN  [p \in pairs |->
            Cardinality({r \in atom_types :
                            r.res_name = p[1] /\ r.atom_type = p[2]})]

\* variant: the pairs that reach the tolerance are kept as well
TypePercents_reaching(type_counts) ==
    LET pairs == DOMAIN type_counts
        solvent_counts == [n \in {p[1] : p \in pairs} |->
            ISum(type_counts, {p \in pairs : p[1] = n})]
        type_percents == [p \in pairs |-> Frac(type_counts[p], solvent_counts[p[1]])]
        kept == {p \in pairs :
                    type_percents[p].num * TolDen >= TolNum * type_percents[p].den}
    IN  [p \in kept |-> type_percents[p]]

\* the percent of each type among the rows of its solvent, and the filter
\* type_percents.percent > tol
TypePercents(type_counts) ==
    LET pairs == DOMAIN type_counts
        solvent_counts == [n \in {p[1] : p \in pairs} |->
            ISum(type_counts, {p \in pairs : p[1] = n})]
        type_percents == [p \in pairs |-> Frac(type_counts[p], solvent_counts[p[1]])]
        kept == {p \in pairs :
                    type_percents[p].num * TolDen > TolNum * type_percents[p].den}
    IN  [p \in kept |-> type_percents[p]]

\* Coordination._calculate_coordinating_atoms
CalculateCoordinatingAtoms(data) == TypePercents(TypeCounts(data))

\* Coordination.__init__
NewCoordination(data, nf, ns) ==
    LET cn == MeanCn(data, nf, ns)
    IN  [kind |-> "Coordination", n_frames |-> nf, n_solutes |-> ns,
         cn_dict |-> cn.cn_dict, cn_by_frame |-> cn.cn_by_frame,
         coordinating_atoms |-> CalculateCoordinatingAtoms(data)]

\* -------------------------------------------------------------- Pairing
\* variant: the counts are summed without the coercion to boolean
PairingSeries_rows(data, ns) ==
    LET counts == CnCounts(data)
        keys   == {<<g[3], g[1]>> : g \in DOMAIN counts}
    IN  [k \in keys |->
            Frac(ISum(counts, {g \in DOMAIN counts : g[3] = k[1] /\ g[1] = k[2]}),
                 ns)]

\* Pairing._fraction_coordinated: the series per (solvent_name, frame)
PairingSeries(data, ns) ==
    LET counts == CnCounts(data)
        keys   == {<<g[3], g[1]>> : g \in DOMAIN counts}
    IN  [k \in keys |->
            Frac(Cardinality({g \in DOMAIN counts :
                    g[3] = k[1] /\ g[1] = k[2] /\ counts[g] # 0}), ns)]

\* variant: the series is summed without the division by n_frames
FractionCoordinated_unnormalized(data, nf, ns) ==
    LET pairing_series == PairingSeries(data, ns)
    IN  [pairing_by_frame |-> Unstack(pairing_series, Names(data), FramesOf(data)),
         pairing_dict |-> [n \in Names(data) |->
            FSum(pairing_series, {k \in DOMAIN pairing_series : k[1] = n})]]

\* Pairing._fraction_coordinated
FractionCoordinated(data, nf, ns) ==
    LET pairing_series == PairingSeries(data, ns)
        pairing_normalized == [k \in DOMAIN pairing_series |->
                                   FDivInt(pairing_series[k], nf)]
    IN  [pairing_by_frame |-> Unstack(pairing_series, Names(data), FramesOf(data)),
         pairing_dict |-> [n \in Names(data) |->
            FSum(pairing_normalized, {k \in DOMAIN pairing_normalized : k[1] = n})]]

\* the names _fraction_free_solvent looks up in solvent_counts
MissingNames(data, pop) == Names(data) \ DOMAIN pop

\* variant: the rows of a solvent_name are counted, not the groups
CoordinatedTotals_rows(data) ==
    [n \in Names(data) |-> Cardinality({r \in data : r.res_name = n})]

\* totals of _fraction_free_solvent: groups of (frame, res_ix, solvent_name)
\* per solvent_name
CoordinatedTotals(data) ==
    LET groups == {<<r.frame, r.res_ix, r.res_name>> : r \in data}
    IN  [n \in Names(data) |-> Cardinality({g \in groups : g[3] = n})]

\* Pairing._fraction_free_solvent (defined when MissingNames is empty)
FractionFreeSolvent(data, nf, pop) ==
    LET totals == CoordinatedTotals(data)
    IN  [n \in Names(data) |->
            FSub(Frac(1, 1), FDivInt(Frac(totals[n], nf), pop[n]))]

\* groupby([frame, solvent_name]).nunique()[res_ix]
CoordinatedSolvents(data) ==
    LET keys == {<<r.frame, r.res_name>> : r \in data}
    IN  [k \in keys |->
            Cardinality({r.res_ix : r \in {q \in data :
                            q.frame = k[1] /\ q.res_name = k[2]}})]

\* diluent_solvents of _diluent_composition (defined when MissingNames is empty)
DiluentSolvents(data, pop) ==
    LET coordinated_solvents == CoordinatedSolvents(data)
    IN  [k \in DOMAIN coordinated_solvents |-> pop[k[2]] - coordinated_solvents[k]]

\* mean of a row of a table over its columns, NaN cells skipped
RowMean(row) ==
    LET cells == {c \in DOMAIN row : ~IsNaN(row[c])}
    IN  IF cells = {} THEN NaN
        ELSE FDivInt(FSum(row, cells), Cardinality(cells))

\* variant: the diluent counts are normalised by their sum over all frames
DiluentComposition_pooled(data, pop) ==
    LET diluent_solvents == DiluentSolvents(data, pop)
        pooled_sum == ISum(diluent_solvents, DOMAIN diluent_solvents)
        diluent_series == [k \in DOMAIN diluent_solvents |->
            Frac(diluent_solvents[k], pooled_sum)]
        swap(series) == [k \in {<<j[2], j[1]>> : j \in DOMAIN series} |->
                            series[<<k[2], k[1]>>]]
        diluent_by_frame == Unstack(swap(diluent_series), Names(data), FramesOf(data))
        counts_as_float == [k \in DOMAIN diluent_solvents |->
                                Frac(diluent_solvents[k], 1)]
    IN  [diluent_by_frame |-> diluent_by_frame,
         diluent_counts |-> Unstack(swap(counts_as_float), Names(data), FramesOf(data)),
         diluent_dict |-> [n \in Names(data) |-> RowMean(diluent_by_frame[n])]]

\* Pairing._diluent_composition
DiluentComposition(data, pop) ==
    LET diluent_solvents == DiluentSolvents(data, pop)
        frame_sum == [f \in FramesOf(data) |->
            ISum(diluent_solvents, {k \in DOMAIN diluent_solvents : k[1] = f})]
        diluent_series == [k \in DOMAIN diluent_solvents |->
            Frac(diluent_solvents[k], frame_sum[k[1]])]
        swap(series) == [k \in {<<j[2], j[1]>> : j \in DOMAIN series} |->
                            series[<<k[2], k[1]>>]]
        diluent_by_frame == Unstack(swap(diluent_series), Names(data), FramesOf(data))
        counts_as_float == [k \in DOMAIN diluent_solvents |->
                                Frac(diluent_solvents[k], 1)]
    IN  [diluent_by_frame |-> diluent_by_frame,
         diluent_counts |-> Unstack(swap(counts_as_float), Names(data), FramesOf(data)),
         diluent_dict |-> [n \in Names(data) |-> RowMean(diluent_by_frame[n])]]

\* Pairing.__init__ (defined when MissingNames is empty)
NewPairing(data, nf, ns, pop) ==
    LET fc == FractionCoordinated(data, nf, ns)
        dc == DiluentComposition(data, pop)
    IN  [kind |-> "Pairing", n_frames |-> nf, n_solutes |-> ns,
         solvent_counts |-> pop,
         pairing_dict |-> fc.pairing_dict, pairing_by_frame |-> fc.pairing_by_frame,
         fraction_free_solvents |-> FractionFreeSolvent(data, nf, pop),
         diluent_dict |-> dc.diluent_dict, diluent_by_frame |-> dc.diluent_by_frame,
         diluent_counts |-> dc.diluent_counts]

\* ------------------------------------------------------------ the state
VARIABLES
    solvation_data,   \* the rows of the solute's solvation data
    n_frames,         \* the frame count handed to the constructors
    n_solutes,        \* the solute count handed to the constructors
    solvent_counts,   \* n_solvents: solvent name -> population
    has_run,          \* the solute's has_run flag
    index_levels,     \* the index levels of the solvation data, outermost first
    call,             \* the last call made
    result,           \* the object the last call returned, or NoObject
    raised,           \* the exception the last call raised, or "none"
    attrs_read        \* the attributes of the solute the last call read

vars == <<solvation_data, n_frames, n_solutes, solvent_counts, has_run,
          index_levels, call, result, raised, attrs_read>>

inputs == <<solvation_data, n_frames, n_solutes, solvent_counts, has_run,
            index_levels>>

\* the table is indexed by frame, solute and solvent atom; the residue columns
\* are data columns
TableIndex == <<"frame", "solvated_atom", "atom_ix">>

\* df.reset_index(levels): the index of the frame it returns
ResetIndex(index, levels) == SelectSeq(index, LAMBDA l : l \notin levels)

NoObject == [kind |-> "none"]

\* A solute that has not run has no solvation data yet; the counts and the
\* populations are arguments of the constructors and need not agree with the
\* table.
Init ==
    /\ has_run \in BOOLEAN
    /\ solvation_data \in (IF has_run THEN Tables(MaxRows) ELSE {{}})
    /\ n_frames \in FrameCounts
    /\ n_solutes \in SoluteCounts
    /\ solvent_counts \in PopDicts
    /\ index_levels = TableIndex
    /\ call = "none"
    /\ result = NoObject
    /\ raised = "none"
    /\ attrs_read = {}

\* variant: the atom types are looked up on the table itself, which loses the
\* atom_ix index level and gains the atom_type column
CoordinationInit_in_place ==
    /\ call = "none"
    /\ call' = "Coordination"
    /\ result' = NewCoordination(solvation_data, n_frames, n_solutes)
    /\ raised' = "none"
    /\ attrs_read' = {}
    /\ solvation_data' = AtomTypes(solvation_data)
    /\ index_levels' = ResetIndex(index_levels, {"atom_ix"})
    /\ UNCHANGED <<n_frames, n_solutes, solvent_counts, has_run>>

\* Coordination(solvation_data, n_frames, n_solutes, atom_group); every
\* statistic works on frames derived from the table (reset_index, groupby)
CoordinationInit ==
    /\ call = "none"
    /\ call' = "Coordination"
    /\ result' = NewCoordination(solvation_data, n_frames, n_solutes)
    /\ raised' = "none"
    /\ attrs_read' = {}
    /\ UNCHANGED inputs

\* Pairing(solvation_data, n_frames, n_solutes, n_solvents)
PairingInit ==
    /\ call = "none"
    /\ call' = "Pairing"
    /\ IF MissingNames(solvation_data, solvent_counts) # {}
       THEN result' = NoObject /\ raised' = "KeyError"
       ELSE /\ result' = NewPairing(solvation_data, n_frames, n_solutes,
                                    solvent_counts)
            /\ raised' = "none"
    /\ attrs_read' = {}
    /\ UNCHANGED inputs

\* variant: from_solution without the assertion on has_run
CoordinationFromSolution_unchecked ==
    /\ call = "none"
    /\ call' = "Coordination.from_solution"
    /\ result' = NewCoordination(solvation_data, n_frames, n_solutes)
    /\ raised' = "none"
    /\ attrs_read' = {"solvation_data", "n_frames", "n_solute", "u"}
    /\ UNCHANGED inputs

\* Coordination.from_solution(solution)
CoordinationFromSolution ==
    /\ call = "none"
    /\ call' = "Coordination.from_solution"
    /\ IF ~has_run
       THEN /\ result' = NoObject
            /\ raised' = "AssertionError"
            /\ attrs_read' = {"has_run"}
       ELSE /\ result' = NewCoordination(solvation_data, n_frames, n_solutes)
            /\ raised' = "none"
            /\ attrs_read' = {"has_run", "solvation_data", "n_frames",
                              "n_solute", "u"}
    /\ UNCHANGED inputs

\* Pairing.from_solute(solute)
PairingFromSolute ==
    /\ call = "none"
    /\ call' = "Pairing.from_solute"
    /\ IF ~has_run
       THEN /\ result' = NoObject
            /\ raised' = "AssertionError"
            /\ attrs_read' = {"has_run"}
       ELSE /\ attrs_read' = {"has_run", "solvation_data", "n_frames",
                              "n_solutes", "solvent_counts"}
            /\ IF MissingNames(solvation_data, solvent_counts) # {}
               THEN result' = NoObject /\ raised' = "KeyError"
               ELSE /\ result' = NewPairing(solvation_data, n_frames, n_solutes,
                                            solvent_counts)
                    /\ raised' = "none"
    /\ UNCHANGED inputs

\* ------------------------------------------- the atom types of large tables
\* The tolerance only discards a type of a solvent with more than 200 rows.
\* Such a table is represented by its type_counts: the number of rows of each
\* (solvent, atom type) pair that has a row.
AtomTypeNames == {"1", "2"}
CountValues == {1, 2, 199, 200, 398}

TypeCountTables ==
    {TypeCounts(t) : t \in Tables(MaxRows)}
        \cup UNION {[D -> CountValues] :
                        D \in (SUBSET (Species \X AtomTypeNames)) \ {{}}}

InitAtoms ==
    /\ has_run = TRUE
    /\ solvation_data = {}
    /\ n_frames = 1
    /\ n_solutes = 1
    /\ solvent_counts = [s \in Species |-> 2]
    /\ index_levels = TableIndex
    /\ call = "none"
    /\ result = NoObject
    /\ raised = "none"
    /\ attrs_read = {}

\* Coordination._calculate_coordinating_atoms on the counts of a table
CalculateCoordinatingAtomsOfCounts ==
    /\ call = "none"
    /\ \E tc \in TypeCountTables :
          result' = [kind |-> "coordinating_atoms", type_counts |-> tc,
                     coordinating_atoms |-> TypePercents(tc)]
    /\ call' = "_calculate_coordinating_atoms"
    /\ raised' = "none"
    /\ attrs_read' = {}
    /\ UNCHANGED inputs

NextAtoms == CalculateCoordinatingAtomsOfCounts

SpecAtoms == InitAtoms /\ [][NextAtoms]_vars

\* ------------------------------------------------- compare_solvent_dicts
\* A Python dict is a sequence of <<key, value>> pairs with distinct keys, in
\* insertion order.  property_dict is a dict of solution name -> dict of
\* solvent name -> value; a value is tagged with the solution and the solvent
\* name it was given under.
MaxKeys == 2                       \* solvents of one solution
SolventNames  == {"a", "b", "x"}
SolutionNames == {"a", "s"}        \* one solution is named as its solvent
NoValue == <<"nan", "nan">>        \* an empty cell of the DataFrame

DictKeys(d) == {d[i][1] : i \in DOMAIN d}
KeySeq(d) == [i \in DOMAIN d |-> d[i][1]]
HasKey(d, k) == \E i \in DOMAIN d : d[i][1] = k
Get(d, k) == d[CHOOSE i \in DOMAIN d : d[i][1] = k][2]
\* d.pop(k)
Pop(d, k) == SelectSeq(d, LAMBDA e : e[1] # k)
\* d[k] = v
Put(d, k, v) ==
    IF HasKey(d, k)
    THEN [i \in DOMAIN d |-> IF d[i][1] = k THEN <<k, v>> ELSE d[i]]
    ELSE Append(d, <<k, v>>)
SeqSet(q) == {q[i] : i \in DOMAIN q}

DistinctSeqs(S, lo, hi) ==
    {q \in UNION {[1 .. m -> S] : m \in lo .. hi} :
        \A i \in DOMAIN q : \A j \in DOMAIN q : q[i] = q[j] => i = j}

SolutionDict(name, keys) == [i \in DOMAIN keys |-> <<keys[i], <<name, keys[i]>>>>]

PropertyDicts ==
    LET KeySeqs == DistinctSeqs(SolventNames, 1, MaxKeys)
        names == DistinctSeqs(SolutionNames, 1, Cardinality(SolutionNames))
    IN  UNION {{[i \in DOMAIN ns |-> <<ns[i], SolutionDict(ns[i], ks[i])>>] :
                    ks \in [DOMAIN ns -> KeySeqs]} : ns \in names}

\* rename_solvent_dict: old name -> new name
RenameDicts == UNION {[D -> {"x"}] : D \in SUBSET {"a", "b"}}
SolventsToPlot == DistinctSeqs(SolventNames, 0, MaxKeys)

\* "coerce solutions to a common name": for each key of rename_solvent_dict
\* that is a solution name, the entry of that solution's dict under the same
\* name is popped (KeyError when it has none) and stored under the new name
CoerceSolutions(property_dict, rename_solvent_dict) ==
    LET named == {i \in DOMAIN property_dict :
                     property_dict[i][1] \in DOMAIN rename_solvent_dict}
    IN  IF \E i \in named : ~HasKey(property_dict[i][2], property_dict[i][1])
        THEN [error |-> TRUE, dict |-> property_dict]
        ELSE [error |-> FALSE,
              dict |-> [i \in DOMAIN property_dict |->
                 IF i \in named
                 THEN LET name == property_dict[i][1]
                          d == property_dict[i][2]
                      IN  <<name, Put(Pop(d, name), rename_solvent_dict[name],
                                      Get(d, name))>>
                 ELSE property_dict[i]]]

\* valid_solvents: the solvents common to all solutions
ValidSolvents(property_dict) ==
    LET all_solvents == [i \in DOMAIN property_dict |-> DictKeys(property_dict[i][2])]
    IN  {k \in UNION {all_solvents[i] : i \in DOMAIN property_dict} :
            \A i \in DOMAIN property_dict : k \in all_solvents[i]}

\* the dict comprehension that keeps the solvents of solvents_to_plot, in the
\* order of the solution's dict
FilterSolvents(property_dict, solvents_to_plot) ==
    [i \in DOMAIN property_dict |->
        <<property_dict[i][1],
          SelectSeq(property_dict[i][2],
                    LAMBDA e : e[1] \in SeqSet(solvents_to_plot))>>]

RECURSIVE Columns(_)
\* the columns of pd.DataFrame(data=property_dict.values()): the keys of the
\* dicts in order of first appearance
Columns(property_dict) ==
    IF property_dict = << >> THEN << >>
    ELSE LET n == Len(property_dict)
             before == Columns(SubSeq(property_dict, 1, n - 1))
         IN  before \o SelectSeq(KeySeq(property_dict[n][2]),
                                 LAMBDA k : k \notin SeqSet(before))

Cell(d, k) == IF HasKey(d, k) THEN Get(d, k) ELSE NoValue

\* variant: the solvent axis is drawn without the transposition
Traces_untransposed(property_dict, x_axis, series) ==
    LET columns == Columns(property_dict)
        index == [i \in DOMAIN property_dict |-> property_dict[i][1]]
        type == IF series THEN "line" ELSE "bar"
    IN  [j \in DOMAIN columns |->
            [name |-> columns[j], type |-> type, x |-> index,
             y |-> [i \in DOMAIN property_dict |->
                        Cell(property_dict[i][2], columns[j])]]]

\* the traces of the px.line / px.bar figure of the four branches
Traces(property_dict, x_axis, series) ==
    LET columns == Columns(property_dict)
        index == [i \in DOMAIN property_dict |-> property_dict[i][1]]
        type == IF series THEN "line" ELSE "bar"
    IN  IF x_axis = "solvent"
        THEN \* df.transpose(): one trace per solution over the solvents
             [i \in DOMAIN property_dict |->
                [name |-> index[i], type |-> type, x |-> columns,
                 y |-> [j \in DOMAIN columns |->
                            Cell(property_dict[i][2], columns[j])]]]
        ELSE \* one trace per solvent over the solutions
             [j \in DOMAIN columns |->
                [name |-> columns[j], type |-> type, x |-> index,
                 y |-> [i \in DOMAIN property_dict |->
                            Cell(property_dict[i][2], columns[j])]]]

\* compare_solvent_dicts(property_dict, rename_solvent_dict, solvents_to_plot,
\*                       legend_label, x_axis, series)
CompareSolventDictsResult(property_dict, rename_solvent_dict, solvents_to_plot, x_axis, series) ==
    LET args == [property_dict |-> property_dict,
                 rename_solvent_dict |-> rename_solvent_dict,
                 solvents_to_plot |-> solvents_to_plot,
                 x_axis |-> x_axis, series |-> series]
        coerced == CoerceSolutions(property_dict, rename_solvent_dict)
        NoFigure(e) == [kind |-> "NoFigure", args |-> args, raised |-> e,
                        data |-> << >>, traces |-> << >>]
    IN  IF coerced.error THEN NoFigure("KeyError")
        ELSE IF solvents_to_plot # << >>
                  /\ ~(SeqSet(solvents_to_plot) \subseteq ValidSolvents(coerced.dict))
        THEN NoFigure("Exception")
        ELSE LET data == IF solvents_to_plot # << >>
                         THEN FilterSolvents(coerced.dict, solvents_to_plot)
                         ELSE coerced.dict
             IN  [kind |-> "Figure", args |-> args, raised |-> "none",
                  data |-> data, traces |-> Traces(data, x_axis, series)]

InitPlot ==
    /\ has_run = TRUE
    /\ solvation_data = {}
    /\ n_frames = 1
    /\ n_solutes = 1
    /\ solvent_counts = [s \in Species |-> 2]
    /\ index_levels = TableIndex
    /\ call = "none"
    /\ result = NoObject
    /\ raised = "none"
    /\ attrs_read = {}

CompareSolventDicts ==
    /\ call = "none"
    /\ \E pd \in PropertyDicts : \E rn \in RenameDicts : \E stp \in SolventsToPlot :
       \E x_axis \in {"solvent", "solute"} : \E series \in BOOLEAN :
          LET r == CompareSolventDictsResult(pd, rn, stp, x_axis, series)
          IN  result' = r /\ raised' = r.raised
    /\ call' = "compare_solvent_dicts"
    /\ attrs_read' = {}
    /\ UNCHANGED inputs

NextPlot == CompareSolventDicts

SpecPlot == InitPlot /\ [][NextPlot]_vars

\* ------------------------------------------- the comparison functions
\* the attributes Pairing.__init__ and Coordination.__init__ set
PairingAttributes ==
    {"solvation_data", "n_frames", "n_solutes", "solvent_counts", "pairing_dict",
     "pairing_by_frame", "fraction_free_solvents", "diluent_dict",
     "diluent_by_frame", "diluent_counts"}
CoordinationAttributes ==
    {"solvation_data", "n_frames", "n_solutes", "cn_dict", "cn_by_frame",
     "atom_group", "coordinating_atoms"}
AttributesOf(object) ==
    IF object.kind = "Pairing" THEN PairingAttributes
    ELSE IF object.kind = "Coordination" THEN CoordinationAttributes
    ELSE {}

\* the functions made by _compare_function_generator(analysis_object, attribute, ...)
CompareFunctions ==
    {[name |-> "compare_pairing", analysis_object |-> "pairing",
      attribute |-> "solvent_pairing"],
     [name |-> "compare_free_solvents", analysis_object |-> "pairing",
      attribute |-> "fraction_free_solvents"],
     [name |-> "compare_diluent", analysis_object |-> "pairing",
      attribute |-> "diluent_composition"],
     [name |-> "compare_coordination_numbers", analysis_object |-> "coordination",
      attribute |-> "coordination_numbers"]}

\* the tables of the solutes that are compared
SoluteTables == {{Row(0, 0, 1), Row(0, 0, 4)}, {Row(0, 0, 1), Row(0, 1, 2)}}
\* a solute holds an analysis object or lacks the attribute (NoObject)
Analyses ==
    [pairing : {NoObject} \cup {NewPairing(t, 1, 2, [s \in Species |-> 2]) :
                                    t \in SoluteTables},
     coordination : {NoObject} \cup {NewCoordination(t, 1, 2) : t \in SoluteTables}]
SoluteNames == <<"s1", "s2">>
\* solutions: dict of solution name -> solute
Solutions ==
    UNION {[1 .. m -> Analyses] : m \in 1 .. Len(SoluteNames)}

\* a dict of species -> value in the order of its keys
DictItems(values) ==
    LET order == <<"A", "B">>
        keys == SelectSeq(order, LAMBDA k : k \in DOMAIN values)
    IN  [i \in DOMAIN keys |-> <<keys[i], values[keys[i]]>>]

RECURSIVE CollectProperty(_, _, _, _)
\* the loop of compare_func over solutions.items(), from solute i on
CollectProperty(solutions, func, i, property) ==
    IF i > Len(solutions) THEN [raised |-> "none", property |-> property]
    ELSE LET object == solutions[i][func.analysis_object]
         IN  IF object.kind = "none"
             THEN [raised |-> "ValueError", property |-> property]
             ELSE IF func.attribute \notin AttributesOf(object)
             THEN [raised |-> "AttributeError", property |-> property]
             ELSE CollectProperty(solutions, func, i + 1,
                     Append(property,
                            <<SoluteNames[i], DictItems(object[func.attribute])>>))

\* compare_func(solutions, rename_solvent_dict, solvents_to_plot, x_axis, series)
CompareFuncResult(func, solutions, rename_solvent_dict, solvents_to_plot, x_axis, series) ==
    LET collected == CollectProperty(solutions, func, 1, << >>)
        called == [func |-> func, solutions |-> solutions]
    IN  IF collected.raised # "none"
        THEN [kind |-> "NoFigure", called |-> called, reached |-> FALSE,
              raised |-> collected.raised, data |-> << >>, traces |-> << >>]
        ELSE LET fig == CompareSolventDictsResult(collected.property,
                            rename_solvent_dict, solvents_to_plot, x_axis, series)
             IN  [kind |-> fig.kind, called |-> called, reached |-> TRUE,
                  raised |-> fig.raised, data |-> fig.data, traces |-> fig.traces]

CompareFunc ==
    /\ call = "none"
    /\ \E func \in CompareFunctions : \E solutions \in Solutions :
       \E stp \in {<< >>, <<"A">>, <<"B">>} :
       \E x_axis \in {"solvent", "solute"} : \E series \in BOOLEAN :
          LET r == CompareFuncResult(func, solutions, << >>, stp, x_axis, series)
          IN  result' = r /\ raised' = r.raised
    /\ call' = "compare_func"
    /\ attrs_read' = {}
    /\ UNCHANGED inputs

NextCompare == CompareFunc

SpecCompare == InitPlot /\ [][NextCompare]_vars

Next ==
    \/ CoordinationInit
    \/ PairingInit
    \/ CoordinationFromSolution
    \/ PairingFromSolute

Spec == Init /\ [][Next]_vars

\* ------------------------------------------------- quantities of the claims
RowsOf(s) == {r \in solvation_data : r.res_name = s}
RowsIn(s, f) == {r \in solvation_data : r.res_name = s /\ r.frame = f}
SolutesIn(s, f) == {r.solvated_atom : r \in RowsIn(s, f)}
ResiduesIn(s, f) == {r.res_ix : r \in RowsIn(s, f)}
TableNames == {r.res_name : r \in solvation_data}
TableFrames == {r.frame : r \in solvation_data}
TrajectoryFrames == 0 .. (n_frames - 1)

IsCoordination == result.kind = "Coordination"
IsPairing == result.kind = "Pairing"

\* the example of the specification: 1 frame, 2 solutes, solute 0 with residues
\* 1 and 2 of species A, solute 1 with residue 1
ExampleTable == {Row(0, 0, 1), Row(0, 0, 3), Row(0, 1, 1)}

C2_CnByFrameIsFrameCn ==
    IsCoordination =>
        \A s \in TableNames :
            /\ \A f \in TableFrames :
                  RowsIn(s, f) # {} =>
                      FEq(result.cn_by_frame[s][f],
                          Cardinality(RowsIn(s, f)), n_solutes)
            /\ FDivInt(FSum(result.cn_by_frame[s], TableFrames), n_frames)
                  = result.cn_dict[s]

\* C3 (as stated): for every species s and every frame f,
\* pairing_by_frame[s][f] is the number of distinct solutes with a row of s in
\* f divided by n_solutes, and pairing_dict[s] is the sum of these fractions
\* divided by n_frames.
C3_PairingEveryFrame ==
    IsPairing =>
        \A s \in TableNames :
            /\ \A f \in TableFrames :
                  FEq(result.pairing_by_frame[s][f],
                      Cardinality(SolutesIn(s, f)), n_solutes)
            /\ FEq(result.pairing_dict[s],
                   ISum([f \in TableFrames |-> Cardinality(SolutesIn(s, f))],
                        TableFrames),
                   n_solutes * n_frames)

\* C3 (amended): for every species s and every frame f in which s has a row,
\* pairing_by_frame[s][f] is the number of distinct solutes with a row of s in
\* f divided by n_solutes (several rows of one solute count once); the cell of
\* a frame of the table in which s has no row is empty (NaN); pairing_dict[s]
\* is the sum of the per-frame fractions divided by n_frames.
C3_PairingCountsSolutesOnce ==
    IsPairing =>
        /\ DOMAIN result.pairing_dict = TableNames
        /\ DOMAIN result.pairing_by_frame = TableNames
        /\ \A s \in TableNames :
            /\ DOMAIN result.pairing_by_frame[s] = TableFrames
            /\ \A f \in TableFrames :
                  IF RowsIn(s, f) # {}
                  THEN FEq(result.pairing_by_frame[s][f],
                           Cardinality(SolutesIn(s, f)), n_solutes)
                  ELSE IsNaN(result.pairing_by_frame[s][f])
            /\ FEq(result.pairing_dict[s],
                   ISum([f \in TableFrames |-> Cardinality(SolutesIn(s, f))],
                        TableFrames),
                   n_solutes * n_frames)

\* C3 witness: one solute has several rows of a species in a frame, another
\* frame of the table has no row of that species, and n_frames is 2
C3_Witness ==
    /\ IsPairing
    /\ n_frames = 2
    /\ \E s \in TableNames :
          /\ \E f \in TableFrames :
                Cardinality(RowsIn(s, f)) > Cardinality(SolutesIn(s, f))
          /\ \E f \in TableFrames : RowsIn(s, f) = {}

ConsistentCounts ==
    /\ Cardinality({r.solvated_atom : r \in solvation_data}) <= n_solutes
    /\ Cardinality(TableFrames) <= n_frames

\* C4: when the table has at most n_solutes distinct solute atoms and at most
\* n_frames distinct frames, every pairing_dict[s] lies in [0, 1] and every
\* cn_dict[s] is at least 0.
C4_FractionsInRange ==
    ConsistentCounts =>
        /\ IsPairing =>
              \A s \in DOMAIN result.pairing_dict :
                  /\ FLeq(Frac(0, 1), result.pairing_dict[s])
                  /\ FLeq(result.pairing_dict[s], Frac(1, 1))
        /\ IsCoordination =>
              \A s \in DOMAIN result.cn_dict :
                  FLeq(Frac(0, 1), result.cn_dict[s])

\* C4 witness: a consistent table in which a solute has two rows of a species
\* and the pairing fraction of that species reaches 1
C4_Witness ==
    /\ IsPairing
    /\ ConsistentCounts
    /\ \E s \in DOMAIN result.pairing_dict :
          /\ result.pairing_dict[s] = Frac(1, 1)
          /\ \E f \in TableFrames :
                Cardinality(RowsIn(s, f)) > Cardinality(SolutesIn(s, f))

\* D(s): the distinct (frame, res_ix) pairs of species s
CoordinatedPairs(s) == {<<r.frame, r.res_ix>> : r \in RowsOf(s)}

\* C5: for every species s of the table with nonzero population,
\* fraction_free_solvents[s] = 1 - D(s) / (n_frames * population[s]); a residue
\* with several rows in a frame is counted once.
C5_FreeFractionCountsResiduesOnce ==
    IsPairing =>
        \A s \in TableNames :
            solvent_counts[s] # 0 =>
                FEq(result.fraction_free_solvents[s],
                    n_frames * solvent_counts[s] - Cardinality(CoordinatedPairs(s)),
                    n_frames * solvent_counts[s])

\* C5 witness: a residue of a species with nonzero population has several rows
\* in one frame
C5_Witness ==
    /\ IsPairing
    /\ \E s \in TableNames :
          /\ solvent_counts[s] # 0
          /\ Cardinality(RowsOf(s)) > Cardinality(CoordinatedPairs(s))
          /\ IsFinite(result.fraction_free_solvents[s])

\* the diluent count of species s in frame f: the population less the distinct
\* coordinated residues
DiluentCount(s, f) == solvent_counts[s] - Cardinality(ResiduesIn(s, f))
TotalDiluent(f) ==
    ISum([s \in DOMAIN solvent_counts |-> DiluentCount(s, f)], DOMAIN solvent_counts)

\* C6: for every frame f of the trajectory and every species s of n_solvents,
\* diluent_counts[f][s] is population[s] less the number of distinct res_ix of
\* s with a row in f, also for a species with no coordinated residue in f,
\* whose count is its full population.
C6_DiluentCountsEverySpecies ==
    IsPairing =>
        \A s \in DOMAIN solvent_counts : \A f \in TrajectoryFrames :
            /\ s \in DOMAIN result.diluent_counts
            /\ f \in DOMAIN result.diluent_counts[s]
            /\ FEq(result.diluent_counts[s][f], DiluentCount(s, f), 1)

\* C7: for every frame with nonzero total diluent population the entries of
\* diluent_by_frame of that frame sum to 1 over the species, and each entry is
\* the diluent count of its species divided by the total diluent count of the
\* frame.
C7_DiluentFractionsSumToOne ==
    IsPairing =>
        \A f \in TrajectoryFrames :
            TotalDiluent(f) # 0 =>
                /\ f \in TableFrames
                /\ FSum([s \in TableNames |-> result.diluent_by_frame[s][f]],
                        TableNames) = Frac(1, 1)
                /\ \A s \in DOMAIN solvent_counts :
                      /\ s \in DOMAIN result.diluent_by_frame
                      /\ FEq(result.diluent_by_frame[s][f],
                             DiluentCount(s, f), TotalDiluent(f))

\* C8: a species of population zero causes no division by zero: its
\* fraction_free_solvents entry is 0 and it takes no part in the diluent
\* normalization, instead of an infinite, negative or undefined value.
C8_ZeroPopulationIsDefined ==
    IsPairing =>
        \A s \in TableNames :
            solvent_counts[s] = 0 =>
                /\ FEq(result.fraction_free_solvents[s], 0, 1)
                /\ \A f \in TableFrames : IsNaN(result.diluent_by_frame[s][f])

InconsistentPopulation ==
    \/ TableNames \ DOMAIN solvent_counts # {}
    \/ \E s \in TableNames \cap DOMAIN solvent_counts : \E f \in TableFrames :
          solvent_counts[s] < Cardinality(ResiduesIn(s, f))

PairingCalled == call \in {"Pairing", "Pairing.from_solute"}

\* C9: constructing Pairing with populations inconsistent with the table (a
\* species of the table missing from n_solvents, or a population smaller than
\* the distinct coordinated residues of a frame) raises an error and yields no
\* object.
C9_InconsistentPopulationRaises ==
    (PairingCalled /\ InconsistentPopulation) =>
        /\ result = NoObject
        /\ raised # "none"

TypeTotal(tc, n) == ISum(tc, {p \in DOMAIN tc : p[1] = n})

\* C12: coordinating_atoms holds a (species, atom_type) pair iff the rows of
\* the species with that type divided by all rows of the species exceed 0.005
\* strictly, the stored value is that fraction, a pair at exactly 0.005 is
\* discarded, and the retained fractions of a species sum to at most 1.
C12_AtomTypesAboveTolerance ==
    result.kind = "coordinating_atoms" =>
        LET tc == result.type_counts
            ca == result.coordinating_atoms
        IN  /\ DOMAIN ca \subseteq DOMAIN tc
            /\ \A p \in DOMAIN tc :
                  /\ p \in DOMAIN ca <=> tc[p] * 200 > TypeTotal(tc, p[1])
                  /\ p \in DOMAIN ca => FEq(ca[p], tc[p], TypeTotal(tc, p[1]))
            /\ \A n \in Species :
                  FLeq(FSum(ca, {p \in DOMAIN ca : p[1] = n}), Frac(1, 1))

\* C12 witness: a type at exactly 1/200 of its solvent was discarded and the
\* other type of the solvent was kept
C12_Witness ==
    /\ result.kind = "coordinating_atoms"
    /\ \E p \in DOMAIN result.type_counts :
          /\ result.type_counts[p] * 200 = TypeTotal(result.type_counts, p[1])
          /\ p \notin DOMAIN result.coordinating_atoms
          /\ \E q \in DOMAIN result.coordinating_atoms : q[1] = p[1]

\* the (frame, solute, residue) triples of species s: one per residue that
\* coordinates a solute in a frame
CoordinatingResidues(s) ==
    {<<r.frame, r.solvated_atom, r.res_ix>> : r \in RowsOf(s)}

\* C13: cn_dict[s] is the mean over every solute and frame of the number of
\* distinct residues of species s within the solvation distance of the solute,
\* also when a residue has several atoms within the cutoff of one solute.
C13_CnDictCountsResidues ==
    IsCoordination =>
        \A s \in TableNames :
            FEq(result.cn_dict[s],
                Cardinality(CoordinatingResidues(s)), n_solutes * n_frames)

\* ----------------------------------------------------------- plotting claims
Plotted == call = "compare_solvent_dicts" /\ result.kind = "Figure"
PlotCalled == call = "compare_solvent_dicts"
\* the solvent names a solution should have once every solvent key that is a
\* key of rename_solvent_dict carries its new name
RenamedKeys(d, rename_solvent_dict) ==
    {IF k \in DOMAIN rename_solvent_dict THEN rename_solvent_dict[k] ELSE k :
        k \in DictKeys(d)}
KeptSolvents == UNION {DictKeys(result.data[i][2]) : i \in DOMAIN result.data}
SolutionsPlotted == {result.data[i][1] : i \in DOMAIN result.data}

\* C14: when the figure is built without solvents_to_plot, every solvent key k
\* of every solution that is a key of rename_solvent_dict is plotted under
\* rename_solvent_dict[k] with the value of k and no longer under k, whatever
\* the solution is called, and every other key keeps its name and value
\* (keys whose new name meets another key of the same solution are left out).
C14_RenamesEverySolventKey ==
    (Plotted /\ result.args.solvents_to_plot = << >>) =>
        \A i \in DOMAIN result.args.property_dict :
            LET d == result.args.property_dict[i][2]
                rn == result.args.rename_solvent_dict
                out == result.data[i][2]
                targets == {rn[k] : k \in DictKeys(d) \cap DOMAIN rn}
            IN  \A k \in DictKeys(d) :
                    IF k \in DOMAIN rn
                    THEN (rn[k] \notin DictKeys(d)
                          /\ \A k2 \in DictKeys(d) \cap DOMAIN rn : rn[k2] = rn[k] => k2 = k)
                         => /\ HasKey(out, rn[k])
                            /\ Get(out, rn[k]) = Get(d, k)
                            /\ ~HasKey(out, k)
                    ELSE k \notin targets
                         => HasKey(out, k) /\ Get(out, k) = Get(d, k)

\* C15: with a non-empty solvents_to_plot the call raises and builds no figure
\* exactly when solvents_to_plot names something that is not a solvent of
\* every solution after renaming; otherwise each solution's data has exactly
\* the solvents of solvents_to_plot.
C15_RejectsNamesNotCommonAfterRenaming ==
    (PlotCalled /\ result.args.solvents_to_plot # << >>) =>
        LET pd == result.args.property_dict
            rn == result.args.rename_solvent_dict
            stp == SeqSet(result.args.solvents_to_plot)
            rejected == \E n \in stp : \E i \in DOMAIN pd :
                            n \notin RenamedKeys(pd[i][2], rn)
        IN  /\ (result.kind = "NoFigure") <=> rejected
            /\ ~rejected => \A i \in DOMAIN result.data :
                                DictKeys(result.data[i][2]) = stp

\* C16: the solvents of solvents_to_plot are plotted in the order of
\* solvents_to_plot: the x values of every trace when solvents are on the
\* x axis, the traces themselves when solutions are on the x axis.
C16_PlottedInGivenOrder ==
    (Plotted /\ result.args.solvents_to_plot # << >>) =>
        IF result.args.x_axis = "solvent"
        THEN \A t \in DOMAIN result.traces :
                result.traces[t].x = result.args.solvents_to_plot
        ELSE [t \in DOMAIN result.traces |-> result.traces[t].name]
                = result.args.solvents_to_plot

Constructed ==
    call' \in {"Coordination", "Pairing", "Coordination.from_solution",
               "Pairing.from_solute"}

\* C18: a construction of Coordination or Pairing leaves the table it was
\* given as it was: the same rows with the same columns (no atom_type column)
\* and the same index levels (atom_ix still in the index).
C18_TableUnchanged ==
    [][Constructed => /\ solvation_data' = solvation_data
                      /\ index_levels' = index_levels]_vars

C18_Witness ==
    /\ IsCoordination
    /\ solvation_data # {}
    /\ index_levels = TableIndex
    /\ \E p \in DOMAIN result.coordinating_atoms : TRUE

\* the rows of one frame, and the frames in which a species has rows
FrameRows(f) == {r \in solvation_data : r.frame = f}
FramesWith(s) == {f \in TableFrames : s \in Names(FrameRows(f))}
\* the statistics of one frame's rows alone
CoordinationPart(f) == MeanCn(FrameRows(f), n_frames, n_solutes)
PairingPart(f) == NewPairing(FrameRows(f), n_frames, n_solutes, solvent_counts)
\* a by-frame table put together from the one-frame tables
MergedTable(part(_), field) ==
    [s \in TableNames |->
        [f \in TableFrames |->
            IF f \in FramesWith(s) THEN part(f)[field][s][f] ELSE NaN]]
\* a by-species sum put together from the one-frame sums
MergedSum(part(_), field) ==
    [s \in TableNames |->
        FSum([f \in FramesWith(s) |-> part(f)[field][s]], FramesWith(s))]
MergedTotals ==
    [s \in TableNames |->
        ISum([f \in FramesWith(s) |-> CoordinatedTotals(FrameRows(f))[s]],
             FramesWith(s))]

C20_FreeFractionForEverySpecies ==
    IsPairing =>
        /\ DOMAIN result.fraction_free_solvents = DOMAIN solvent_counts
        /\ \A s \in DOMAIN solvent_counts :
              (solvent_counts[s] # 0 /\ s \notin TableNames)
                  => FEq(result.fraction_free_solvents[s], 1, 1)

\* the diluent fraction of species s in frame f
DiluentFraction(s, f) == Frac(DiluentCount(s, f), TotalDiluent(f))
EveryFrameHasDiluent == \A f \in TrajectoryFrames : TotalDiluent(f) # 0

\* C21: when every frame of the trajectory has a nonzero diluent population,
\* the values of diluent_dict sum to 1 over the species, and diluent_dict[s]
\* is the mean over all n_frames frames of the diluent fraction of s, also
\* for a species that coordinates no solute in some frame.
C21_DiluentDictIsMeanOverFrames ==
    (IsPairing /\ EveryFrameHasDiluent) =>
        /\ FSum(result.diluent_dict, DOMAIN result.diluent_dict) = Frac(1, 1)
        /\ \A s \in DOMAIN solvent_counts :
              /\ s \in DOMAIN result.diluent_dict
              /\ result.diluent_dict[s] =
                    FDivInt(FSum([f \in TrajectoryFrames |-> DiluentFraction(s, f)],
                                 TrajectoryFrames),
                            n_frames)

\* ------------------------------------------------- comparison functions
Compared == call = "compare_func"
ConstructorSets(func) ==
    func.attribute \in (IF func.analysis_object = "pairing"
                        THEN PairingAttributes ELSE CoordinationAttributes)
Lacking(func, solutions) ==
    {i \in DOMAIN solutions : solutions[i][func.analysis_object].kind = "none"}

\* C22: the attribute a comparison function reads is one the constructor of
\* its analysis object sets; when every solute holds the analysis object the
\* call reaches compare_solvent_dicts and no attribute is missing, and when a
\* solute lacks it the call raises ValueError and builds no figure.
C22_ComparedAttributeIsSet ==
    Compared =>
        LET func == result.called.func
            solutions == result.called.solutions
        IN  /\ ConstructorSets(func)
            /\ Lacking(func, solutions) = {} =>
                  result.reached /\ result.raised # "AttributeError"
            /\ Lacking(func, solutions) # {} =>
                  result.raised = "ValueError" /\ result.kind = "NoFigure"

====
